---- MODULE Spec2Model ----
(***************************************************************************)
(* Model of the two scene-generation scripts of kubric_gpu:                *)
(*   challenges/multicapture/run.py  (specification Spec, and SpecPost for *)
(*                                    its visibility postprocessing)       *)
(*   challenges/gso/run.py           (specification SpecGso)               *)
(* Both scripts are straight-line programs; pc names the statement that    *)
(* runs next.  Reals are kept exact: angles are rationals <<n, d>> of a    *)
(* full turn, friction / restitution are counted in tenths.                *)
(***************************************************************************)
EXTENDS Integers, Sequences, FiniteSets, TLC

\* ---------------------------------------------------------------- bounds
MaxSpan == 1       \* frame_end - frame_start ranges over 0..MaxSpan
MaxObjects == 2    \* --max_num_static_objects / --max_num_dynamic_objects
MaxSceneObjects == 3   \* postprocessing: objects in the rendered scene

VARIABLES
  pc,                  \* multicapture: statement to run next
  FLAGS,               \* multicapture: parsed command line
  gso_splits,          \* multicapture: what gso.get_test_split returns
  rng,                 \* multicapture: state of the generator kb.setup returned
  default_rng,         \* multicapture: per run, state of the library's default generator
  draws,               \* multicapture: log of sampling calls, <<line, generator>>
  assets,              \* multicapture: scene.assets, in insertion order
  camera,              \* multicapture: per run, scene.camera
  theta, phi, radius,  \* multicapture: sampled orbit parameters
  active_split,        \* multicapture: asset ids objects are chosen from
  num_objects,         \* multicapture: num_static_objects / num_dynamic_objects
  i,                   \* multicapture: loop counter of the running for-loop
  trace,               \* multicapture: log of simulator / renderer / scene events
  error                \* multicapture: the exception that ended the run, or "none"

mcvars == <<pc, FLAGS, gso_splits, rng, default_rng, draws, assets, camera,
            theta, phi, radius, active_split, num_objects, i, trace, error>>

VARIABLES
  post_pc,                     \* postprocessing: statement to run next
  scene_assets,                \* postprocessing: scene.assets when render() returns
  segmentation,                \* postprocessing: data_stack["segmentation"]
  visibility,                  \* postprocessing: asset.metadata["visibility"], per asset
  visible_foreground_assets    \* postprocessing: the list of that name

postvars == <<post_pc, scene_assets, segmentation, visibility, visible_foreground_assets>>

VARIABLES
  gso_pc,        \* gso: statement to run next
  args,          \* gso: parsed command line
  archive,       \* gso: which camera-16.pkl is on disk
  all_frames,    \* gso: the concatenated position list
  gso_camera,    \* gso: scene.camera
  frame_idx      \* gso: loop variable of set_cameras

gsovars == <<gso_pc, args, archive, all_frames, gso_camera, frame_idx>>

vars == <<mcvars, postvars, gsovars>>

\* Two executions of the script on the same command line and seed, in lockstep.
Runs == {1, 2}

\* ------------------------------------------------------------- arithmetic
RECURSIVE GCD(_, _)
GCD(a, b) == IF b = 0 THEN a ELSE GCD(b, a % b)

Abs(x) == IF x < 0 THEN -x ELSE x

\* The rational n/d (d > 0) in lowest terms.
Rat(n, d) == LET g == GCD(Abs(n), d) IN <<n \div g, d \div g>>

RatAdd(a, b) == Rat(a[1] * b[2] + b[1] * a[2], a[2] * b[2])

\* a and b, as angles, differ by whole turns.
SameDirection(a, b) == (a[1] * b[2] - b[1] * a[2]) % (a[2] * b[2]) = 0

\* ------------------------------------------------------------- generators
\* Values of --seed, and of the OS entropy an unseeded generator starts from.
Seeds == {0, 1}

\* np.random.RandomState: a deterministic sequence fixed by its seed.
NextRng(s) == (5 * s + 3) % 16

\* rng.uniform(lo, hi) / rng.randint(lo, hi + 1) on the integer grid, from state s.
Uniform(s, lo, hi) == lo + (s % (hi - lo + 1))

\* rng.choice(seq) from state s; seq is not empty.
Choice(s, seq) == seq[1 + (s % Len(seq))]

\* rng.uniform(0, 2 * np.pi), in quarter turns
UniformAzimuth(s) == Rat(s % 4, 4)
\* rng.uniform(np.deg2rad(30), np.deg2rad(60)), in degrees
UniformElevation(s) == 30 + 15 * (s % 3)

Logged(line, gen) == Append(draws, <<line, gen>>)

\* ------------------------------------------------------------ environment
CameraChoices == {"fixed_random", "linear_movement", "linear_movement_linear_lookat"}

\* Results gso.get_test_split(fraction=0.1) can give: a manifest with few assets
\* leaves the held-out split empty, an empty manifest leaves both empty.
GsoSplitChoices ==
  { [train |-> <<"a", "b">>, test |-> <<"c">>],
    [train |-> <<"a", "b">>, test |-> <<>>],
    [train |-> <<>>, test |-> <<>>] }

FlagChoices ==
  { [camera |-> cam, objects_split |-> os, seed |-> sd,
     min_num_static_objects |-> mns, max_num_static_objects |-> mxs,
     min_num_dynamic_objects |-> mnd, max_num_dynamic_objects |-> mxd,
     floor_friction |-> 3, floor_restitution |-> 5,
     min_radius |-> 15, max_radius |-> 20,
     frame_start |-> fs, frame_end |-> fs + span] :
       cam \in {"fixed_random", "spiral"}, os \in {"train", "test"},
       sd \in Seeds,
       mns \in 0..MaxObjects, mxs \in 0..MaxObjects,
       mnd \in 0..MaxObjects, mxd \in 0..MaxObjects,
       fs \in {0, 1}, span \in 0..MaxSpan }

\* rng.randint(low, high) needs low < high.  A count is either fixed (min = max)
\* or drawn from 0..max.
ValidFlags == { f \in FlagChoices :
                  /\ f.min_num_static_objects \in {0, f.max_num_static_objects}
                  /\ f.min_num_dynamic_objects \in {0, f.max_num_dynamic_objects} }

\* ------------------------------------------------------------ scene model
\* A camera position: azimuth (rational turns), elevation (degrees), radius.
Pose(az, el, r) == [az |-> az, el |-> el, r |-> r]

\* Object3D.look_at(target): the orientation is a function of the position
\* the camera has at the time of the call and of the target.
look_at(position, target) == [from |-> position, to |-> target]

Origin == <<0, 0, 0>>

\* kb.PerspectiveCamera(focal_length=35., sensor_width=32)
PerspectiveCamera ==
  [position |-> Pose(<<0, 1>>, 0, 0),
   quaternion |-> [from |-> Pose(<<0, 1>>, 0, 0), to |-> <<0, 0, -1>>],
   keyframes |-> [position |-> <<>>, quaternion |-> <<>>]]

\* Asset.keyframe_insert(member, frame): keyframes[member][frame] = self.member
keyframe_insert(cam, member, frame) ==
  [cam EXCEPT !.keyframes[member] = (frame :> cam[member]) @@ @]

CameraAsset == [kind |-> "camera", asset_id |-> "camera", background |-> FALSE,
                scale |-> 0, position |-> Origin, velocity |-> Origin,
                friction |-> 0, restitution |-> 0, is_dynamic |-> FALSE]

\* kubasic.create(asset_id="dome", friction=1.0, restitution=0.0, static=True, background=True)
Dome == [kind |-> "dome", asset_id |-> "dome", background |-> TRUE,
         scale |-> 0, position |-> Origin, velocity |-> Origin,
         friction |-> 10, restitution |-> 0, is_dynamic |-> FALSE]

\* hasattr(obj, "velocity"): physical objects have one, a camera has not.
HasVelocity(a) == a.kind # "camera"

\* Indices into assets of scene.foreground_assets, in scene order.
RECURSIVE ForegroundFrom(_, _)
ForegroundFrom(as, k) ==
  IF k > Len(as) THEN <<>>
  ELSE (IF as[k].background THEN <<>> ELSE <<k>>) \o ForegroundFrom(as, k + 1)

foreground_assets(as) == ForegroundFrom(as, 1)

\* x coordinates of STATIC_SPAWN_REGION and DYNAMIC_SPAWN_REGION (a slice y = 0)
STATIC_SPAWN_REGION == [lo |-> -7, hi |-> 7, z |-> 0]
DYNAMIC_SPAWN_REGION == [lo |-> -5, hi |-> 5, z |-> 1]

\* kb.move_until_no_overlap(obj, simulator, spawn_region, rng): sample a position
\* in the region from rng until it overlaps no object of the scene.  Gives the
\* generator state afterwards and the position.
RECURSIVE move_until_no_overlap(_, _, _)
move_until_no_overlap(s, region, occupied) ==
  LET s1 == NextRng(s)
      x == Uniform(s1, region.lo, region.hi)
  IN IF x \notin occupied THEN [rng |-> s1, position |-> <<x, 0, region.z>>]
     ELSE move_until_no_overlap(s1, region, occupied)

Occupied(as) == { as[k].position[1] : k \in { j \in 1..Len(as) : as[j].kind = "object" } }

\* Velocities a physics run can leave an object with.
RestVelocities == { <<0, 0, 0>>, <<0, 0, -1>> }

ObjectIdx(as) == { k \in 1..Len(as) : as[k].kind = "object" }

\* simulator.run(...): every simulated object ends with some velocity.
AfterPhysics(as, vel) ==
  [k \in 1..Len(as) |->
     IF as[k].kind = "object" THEN [as[k] EXCEPT !.velocity = vel[k]] ELSE as[k]]

\* -------------------------------------------------- multicapture: camera
\* A loop that stops at frame_end and never keyframes the trailing pad frame.
LastFrameUnpadded(flags) == flags.frame_end

\* range(FLAGS.frame_start - 1, FLAGS.frame_end + 2)
FirstFrame(flags) == flags.frame_start - 1
LastFrame(flags) == flags.frame_end + 1
PaddedRange(flags) == FirstFrame(flags)..LastFrame(flags)

\* num_frames = FLAGS.frame_end - FLAGS.frame_start + 1
NumFrames(flags) == flags.frame_end - flags.frame_start + 1

\* An orbit that starts at frame_start instead of at the leading pad frame.
ThetaCurrUnpadded(th, frame, flags) ==
  RatAdd(th, Rat(frame - flags.frame_start, NumFrames(flags)))

\* theta_curr = theta + (frame - FLAGS.frame_start + 1) * 2 * np.pi / num_frames
ThetaCurr(th, frame, flags) ==
  RatAdd(th, Rat(frame - flags.frame_start + 1, NumFrames(flags)))

\* scene.camera.position = ...; look_at((0, 0, 0));
\* keyframe_insert("position", frame); keyframe_insert("quaternion", frame)
KeyframePose(cam, pos, frame) ==
  LET c1 == [cam EXCEPT !.position = pos]
      c2 == [c1 EXCEPT !.quaternion = look_at(c1.position, Origin)]
      c3 == keyframe_insert(c2, "position", frame)
  IN keyframe_insert(c3, "quaternion", frame)

\* kb.sample_point_in_half_sphere_shell(inner_radius, outer_radius, offset), called
\* without rng=: the point comes from the generator state s of the callee's own
\* default generator.
sample_point_in_half_sphere_shell(s, inner_radius, outer_radius) ==
  Pose(UniformAzimuth(s), UniformElevation(s), Uniform(s, inner_radius, outer_radius))

\* The variables of the scripts a specification does not run.
McIdle ==
  /\ pc = "off" /\ FLAGS = <<>> /\ gso_splits = <<>> /\ rng = 0
  /\ default_rng = <<>> /\ draws = <<>> /\ assets = <<>> /\ camera = <<>>
  /\ theta = <<0, 1>> /\ phi = 0 /\ radius = 0 /\ active_split = <<>>
  /\ num_objects = 0 /\ i = 0 /\ trace = <<>> /\ error = "none"

PostIdle ==
  /\ post_pc = "off" /\ scene_assets = <<>> /\ segmentation = <<>>
  /\ visibility = <<>> /\ visible_foreground_assets = <<>>

GsoIdle ==
  /\ gso_pc = "off" /\ args = <<>> /\ archive = 0 /\ all_frames = <<>>
  /\ gso_camera = <<>> /\ frame_idx = 0

\* ------------------------------------------------- multicapture: actions
Init ==
  /\ pc = "parse_args"
  /\ FLAGS \in ValidFlags
  /\ gso_splits \in GsoSplitChoices
  /\ rng = 0
  /\ default_rng = [r \in Runs |-> -1]
  /\ draws = <<>>
  /\ assets = <<>>
  /\ camera = [r \in Runs |-> PerspectiveCamera]
  /\ theta = <<0, 1>> /\ phi = 0 /\ radius = 0
  /\ active_split = <<>>
  /\ num_objects = 0
  /\ i = 0
  /\ trace = <<>>
  /\ error = "none"
  /\ PostIdle /\ GsoIdle

\* FLAGS = parser.parse_args(): argparse exits on a --camera outside its choices.
ParseArgs ==
  /\ pc = "parse_args"
  /\ IF FLAGS.camera \in CameraChoices
       THEN pc' = "setup" /\ error' = error
       ELSE pc' = "aborted" /\ error' = "SystemExit"
  /\ UNCHANGED <<FLAGS, gso_splits, rng, default_rng, draws, assets, camera,
                 theta, phi, radius, active_split, num_objects, i, trace>>
  /\ UNCHANGED <<postvars, gsovars>>

\* scene, rng, output_dir, scratch_dir = kb.setup(FLAGS); motion_blur = rng.uniform(...)
Setup ==
  /\ pc = "setup"
  /\ rng' = NextRng(FLAGS.seed)
  /\ draws' = Logged(75, "rng")
  /\ pc' = "background"
  /\ UNCHANGED <<FLAGS, gso_splits, default_rng, assets, camera, theta, phi,
                 radius, active_split, num_objects, i, trace, error>>
  /\ UNCHANGED <<postvars, gsovars>>

\* hdri_id = rng.choice(...); dome = kubasic.create(...); scene += dome
PopulateBackground ==
  /\ pc = "background"
  /\ rng' = NextRng(rng)
  /\ draws' = Logged(93, "rng")
  /\ assets' = Append(assets, Dome)
  /\ pc' = "camera"
  /\ UNCHANGED <<FLAGS, gso_splits, default_rng, camera, theta, phi, radius,
                 active_split, num_objects, i, trace, error>>
  /\ UNCHANGED <<postvars, gsovars>>

\* scene.camera = kb.PerspectiveCamera(...); theta, phi, radius = rng.uniform(...)
SetupCamera ==
  /\ pc = "camera"
  /\ camera' = [r \in Runs |-> PerspectiveCamera]
  /\ assets' = Append(assets, CameraAsset)
  /\ LET s1 == NextRng(rng)
         s2 == NextRng(s1)
         s3 == NextRng(s2)
     IN /\ theta' = UniformAzimuth(s1)
        /\ phi' = UniformElevation(s2)
        /\ radius' = Uniform(s3, FLAGS.min_radius, FLAGS.max_radius)
        /\ rng' = s3
  /\ draws' = draws \o <<(<<124, "rng">>), (<<125, "rng">>), (<<126, "rng">>)>>
  /\ i' = FirstFrame(FLAGS)
  /\ pc' = "train_keyframes"
  /\ UNCHANGED <<FLAGS, gso_splits, default_rng, active_split, num_objects,
                 trace, error>>
  /\ UNCHANGED <<postvars, gsovars>>

\* one iteration of: for frame in range(FLAGS.frame_start - 1, FLAGS.frame_end + 2)
TrainKeyframe ==
  /\ pc = "train_keyframes"
  /\ camera' = [r \in Runs |->
                  KeyframePose(camera[r], Pose(ThetaCurr(theta, i, FLAGS), phi, radius), i)]
  /\ i' = i + 1
  /\ pc' = IF i + 1 > LastFrame(FLAGS) THEN "select_split" ELSE "train_keyframes"
  /\ UNCHANGED <<FLAGS, gso_splits, rng, default_rng, draws, assets, theta, phi,
                 radius, active_split, num_objects, trace, error>>
  /\ UNCHANGED <<postvars, gsovars>>

\* train_split, test_split = gso.get_test_split(fraction=0.1); active_split = ...
SelectSplit ==
  /\ pc = "select_split"
  /\ active_split' = IF FLAGS.objects_split = "train"
                       THEN gso_splits.train ELSE gso_splits.test
  /\ pc' = "num_static"
  /\ UNCHANGED <<FLAGS, gso_splits, rng, default_rng, draws, assets, camera,
                 theta, phi, radius, num_objects, i, trace, error>>
  /\ UNCHANGED <<postvars, gsovars>>

\* --------------------------------------- multicapture: objects, physics
Event(ev, a, b) == [ev |-> ev, a |-> a, b |-> b]

\* obj = gso.create(asset_id=rng.choice(active_split)); scale = rng.uniform(0.75, 3.0);
\* scene += obj; kb.move_until_no_overlap(obj, simulator, spawn_region=..., rng=rng)
\* Scale is counted in quarters.  Gives the object and the generator state.
CreateAndPlace(s, split, region, as) ==
  LET s1 == NextRng(s)
      s2 == NextRng(s1)
      placed == move_until_no_overlap(s2, region, Occupied(as))
  IN [rng |-> placed.rng,
      obj |-> [kind |-> "object", asset_id |-> Choice(s1, split), background |-> FALSE,
               scale |-> Uniform(s2, 3, 12), position |-> placed.position,
               velocity |-> Origin, friction |-> 5, restitution |-> 5,
               is_dynamic |-> FALSE]]

\* obj.friction = 1.0; obj.restitution = 0.0; obj.metadata["is_dynamic"] = False
AsStatic(obj) == [obj EXCEPT !.friction = 10, !.restitution = 0, !.is_dynamic = FALSE]

\* obj.velocity = rng.uniform(*VELOCITY_RANGE) - [obj.position[0], obj.position[1], 0];
\* obj.metadata["is_dynamic"] = True.  VELOCITY_RANGE = [(-4, -4, 0), (4, 4, 0)]
AsDynamic(obj, s) ==
  [obj EXCEPT !.velocity = <<Uniform(NextRng(s), -4, 4) - obj.position[1],
                             Uniform(NextRng(NextRng(s)), -4, 4) - obj.position[2],
                             0>>,
              !.is_dynamic = TRUE]

\* num_static_objects = rng.randint(FLAGS.min_num_static_objects, FLAGS.max_num_static_objects+1)
SampleNumStatic ==
  /\ pc = "num_static"
  /\ rng' = NextRng(rng)
  /\ draws' = Logged(160, "rng")
  /\ num_objects' = Uniform(rng', FLAGS.min_num_static_objects, FLAGS.max_num_static_objects)
  /\ i' = 0
  /\ pc' = IF num_objects' = 0 THEN "settle" ELSE "place_static"
  /\ UNCHANGED <<FLAGS, gso_splits, default_rng, assets, camera, theta, phi,
                 radius, active_split, trace, error>>
  /\ UNCHANGED <<postvars, gsovars>>

\* one iteration of: for i in range(num_static_objects)
\* rng.choice raises ValueError on an empty split.
PlaceStatic ==
  /\ pc = "place_static"
  /\ IF active_split = <<>>
       THEN /\ pc' = "aborted" /\ error' = "ValueError"
            /\ UNCHANGED <<rng, draws, assets, i, trace>>
       ELSE LET made == CreateAndPlace(rng, active_split, STATIC_SPAWN_REGION, assets)
            IN /\ assets' = Append(assets, AsStatic(made.obj))
               /\ rng' = made.rng
               /\ draws' = draws \o <<(<<164, "rng">>), (<<166, "rng">>), (<<170, "rng">>)>>
               /\ trace' = Append(trace, Event("add_static", Len(assets) + 1, 0))
               /\ i' = i + 1
               /\ pc' = IF i + 1 >= num_objects THEN "settle" ELSE "place_static"
               /\ error' = error
  /\ UNCHANGED <<FLAGS, gso_splits, default_rng, camera, theta, phi, radius,
                 active_split, num_objects>>
  /\ UNCHANGED <<postvars, gsovars>>

\* _, _ = simulator.run(frame_start=-100, frame_end=0)
SettleRun ==
  /\ pc = "settle"
  /\ \E vel \in [ObjectIdx(assets) -> RestVelocities] :
       assets' = AfterPhysics(assets, vel)
  /\ trace' = Append(trace, Event("run", -100, 0))
  /\ i' = 1
  /\ pc' = "reset"
  /\ UNCHANGED <<FLAGS, gso_splits, rng, default_rng, draws, camera, theta, phi,
                 radius, active_split, num_objects, error>>
  /\ UNCHANGED <<postvars, gsovars>>

\* A reset that stops the object and leaves its settle-time material untouched.
ResetVelocityOnly(obj) ==
  IF HasVelocity(obj) THEN [obj EXCEPT !.velocity = Origin] ELSE obj

\* if hasattr(obj, "velocity"): obj.velocity = (0., 0., 0.); obj.friction = 0.5;
\* obj.restitution = 0.5
ResetObject(obj) ==
  IF HasVelocity(obj)
    THEN [obj EXCEPT !.velocity = Origin, !.friction = 5, !.restitution = 5]
    ELSE obj

\* A reset loop that leaves after its first object.
ResetLoopBreaks ==
  /\ pc = "reset"
  /\ LET fg == foreground_assets(assets)
     IN /\ assets' = [assets EXCEPT ![fg[i]] = ResetObject(@)]
        /\ trace' = Append(trace, Event("reset", fg[i], -assets[fg[i]].velocity[3]))
  /\ pc' = "reset_dome"
  /\ i' = i + 1
  /\ UNCHANGED <<FLAGS, gso_splits, rng, default_rng, draws, camera, theta, phi,
                 radius, active_split, num_objects, error>>
  /\ UNCHANGED <<postvars, gsovars>>

\* one iteration of: for obj in scene.foreground_assets
ResetLoop ==
  /\ pc = "reset"
  /\ LET fg == foreground_assets(assets)
     IN /\ assets' = [assets EXCEPT ![fg[i]] = ResetObject(@)]
        /\ trace' = Append(trace, Event("reset", fg[i], -assets[fg[i]].velocity[3]))
        /\ pc' = IF i + 1 > Len(fg) THEN "reset_dome" ELSE "reset"
  /\ i' = i + 1
  /\ UNCHANGED <<FLAGS, gso_splits, rng, default_rng, draws, camera, theta, phi,
                 radius, active_split, num_objects, error>>
  /\ UNCHANGED <<postvars, gsovars>>

\* dome.friction = FLAGS.floor_friction; dome.restitution = FLAGS.floor_restitution;
\* num_dynamic_objects = rng.randint(FLAGS.min_num_dynamic_objects, FLAGS.max_num_dynamic_objects+1)
ResetDome ==
  /\ pc = "reset_dome"
  /\ assets' = [assets EXCEPT ![1].friction = FLAGS.floor_friction,
                              ![1].restitution = FLAGS.floor_restitution]
  /\ rng' = NextRng(rng)
  /\ draws' = Logged(198, "rng")
  /\ num_objects' = Uniform(rng', FLAGS.min_num_dynamic_objects, FLAGS.max_num_dynamic_objects)
  /\ i' = 0
  /\ pc' = IF num_objects' = 0 THEN "toss" ELSE "place_dynamic"
  /\ UNCHANGED <<FLAGS, gso_splits, default_rng, camera, theta, phi, radius,
                 active_split, trace, error>>
  /\ UNCHANGED <<postvars, gsovars>>

\* one iteration of: for i in range(num_dynamic_objects)
PlaceDynamic ==
  /\ pc = "place_dynamic"
  /\ IF active_split = <<>>
       THEN /\ pc' = "aborted" /\ error' = "ValueError"
            /\ UNCHANGED <<rng, draws, assets, i, trace>>
       ELSE LET made == CreateAndPlace(rng, active_split, DYNAMIC_SPAWN_REGION, assets)
            IN /\ assets' = Append(assets, AsDynamic(made.obj, made.rng))
               /\ rng' = NextRng(NextRng(made.rng))
               /\ draws' = draws \o <<(<<202, "rng">>), (<<204, "rng">>),
                                      (<<208, "rng">>), (<<210, "rng">>)>>
               /\ trace' = Append(trace, Event("add_dynamic", Len(assets) + 1, 0))
               /\ i' = i + 1
               /\ pc' = IF i + 1 >= num_objects THEN "toss" ELSE "place_dynamic"
               /\ error' = error
  /\ UNCHANGED <<FLAGS, gso_splits, default_rng, camera, theta, phi, radius,
                 active_split, num_objects>>
  /\ UNCHANGED <<postvars, gsovars>>

\* animation, collisions = simulator.run(frame_start=0, frame_end=scene.frame_end+1)
\* No velocity is read after this run; one final velocity stands for all objects.
TossRun ==
  /\ pc = "toss"
  /\ \E v \in RestVelocities :
       assets' = AfterPhysics(assets, [k \in ObjectIdx(assets) |-> v])
  /\ trace' = Append(trace, Event("run", 0, FLAGS.frame_end + 1))
  /\ pc' = "render_train"
  /\ UNCHANGED <<FLAGS, gso_splits, rng, default_rng, draws, camera, theta, phi,
                 radius, active_split, num_objects, i, error>>
  /\ UNCHANGED <<postvars, gsovars>>

\* ------------------------------------- multicapture: rendering, test camera
\* data_stack = renderer.render()   (train scene; its postprocessing is SpecPost)
RenderTrain ==
  /\ pc = "render_train"
  /\ trace' = Append(trace, Event("render", 1, 0))
  /\ pc' = "test_camera"
  /\ UNCHANGED <<FLAGS, gso_splits, rng, default_rng, draws, assets, camera,
                 theta, phi, radius, active_split, num_objects, i, error>>
  /\ UNCHANGED <<postvars, gsovars>>

\* scene.camera = kb.PerspectiveCamera(focal_length=35., sensor_width=32)
CreateTestCamera ==
  /\ pc = "test_camera"
  /\ camera' = [r \in Runs |-> PerspectiveCamera]
  /\ assets' = Append(assets, CameraAsset)
  /\ i' = FirstFrame(FLAGS)
  /\ pc' = "test_lookat"
  /\ UNCHANGED <<FLAGS, gso_splits, rng, default_rng, draws, theta, phi, radius,
                 active_split, num_objects, trace, error>>
  /\ UNCHANGED <<postvars, gsovars>>

\* one iteration of the first test loop: theta_curr = rng.uniform(0, 2 * np.pi)
TestKeyframeLookat ==
  /\ pc = "test_lookat"
  /\ rng' = NextRng(rng)
  /\ draws' = Logged(283, "rng")
  /\ camera' = [r \in Runs |->
                  KeyframePose(camera[r], Pose(UniformAzimuth(rng'), phi, radius), i)]
  /\ i' = IF i + 1 > LastFrame(FLAGS) THEN FirstFrame(FLAGS) ELSE i + 1
  /\ pc' = IF i + 1 > LastFrame(FLAGS) THEN "test_shell" ELSE "test_lookat"
  /\ UNCHANGED <<FLAGS, gso_splits, default_rng, assets, theta, phi, radius,
                 active_split, num_objects, trace, error>>
  /\ UNCHANGED <<postvars, gsovars>>

\* The generator a sampling call made without rng= draws from: the library's own
\* default generator, seeded from OS entropy in each process; its state is first
\* seen at its first draw.
DefaultRngState(r, entropy) ==
  IF default_rng[r] = -1 THEN entropy[r] ELSE default_rng[r]

\* one iteration of the second test loop:
\* scene.camera.position = kb.sample_point_in_half_sphere_shell(inner_radius=..., ...)
TestKeyframeShell ==
  /\ pc = "test_shell"
  /\ \E entropy \in [Runs -> Seeds] :
       /\ default_rng' = [r \in Runs |-> NextRng(DefaultRngState(r, entropy))]
       /\ camera' = [r \in Runs |->
            KeyframePose(camera[r],
                         sample_point_in_half_sphere_shell(
                           default_rng'[r], FLAGS.min_radius, FLAGS.max_radius),
                         i)]
  /\ draws' = Logged(297, "default")
  /\ i' = i + 1
  /\ pc' = IF i + 1 > LastFrame(FLAGS) THEN "render_test" ELSE "test_shell"
  /\ UNCHANGED <<FLAGS, gso_splits, rng, assets, theta, phi, radius,
                 active_split, num_objects, trace, error>>
  /\ UNCHANGED <<postvars, gsovars>>

\* data_stack = renderer.render()   (test scene), then outputs are written
RenderTest ==
  /\ pc = "render_test"
  /\ trace' = Append(trace, Event("render", 2, 0))
  /\ pc' = "done"
  /\ UNCHANGED <<FLAGS, gso_splits, rng, default_rng, draws, assets, camera,
                 theta, phi, radius, active_split, num_objects, i, error>>
  /\ UNCHANGED <<postvars, gsovars>>

Next ==
  \/ ParseArgs \/ Setup \/ PopulateBackground \/ SetupCamera \/ TrainKeyframe
  \/ SelectSplit \/ SampleNumStatic \/ PlaceStatic \/ SettleRun \/ ResetLoop
  \/ ResetDome \/ PlaceDynamic \/ TossRun \/ RenderTrain \/ CreateTestCamera
  \/ TestKeyframeLookat \/ TestKeyframeShell \/ RenderTest

Spec == Init /\ [][Next]_vars

\* ------------------------------------------------ multicapture: properties
TraceIdx(ev) == { k \in 1..Len(trace) : trace[k].ev = ev }
Settles == { k \in TraceIdx("run") : trace[k].a = -100 /\ trace[k].b = 0 }
Tosses == { k \in TraceIdx("run") : trace[k].a = 0 /\ trace[k].b = FLAGS.frame_end + 1 }
StaticObjects == { k \in ObjectIdx(assets) : ~assets[k].is_dynamic }

\* C1: the physics phases come in the order settle, reset, toss, each at most once
\* and exactly once in a run that completes: the settle run (-100..0) is the first
\* physics run and only static objects were added before it; a dynamic object is
\* added only after the settle run and after every object added before it was
\* reset; the toss run (0..frame_end+1) follows, and no run, reset or object
\* addition comes after it.
C1_PhaseOrder ==
  /\ TraceIdx("run") = Settles \cup Tosses
  /\ Cardinality(Settles) <= 1 /\ Cardinality(Tosses) <= 1
  /\ \A s \in Settles : \A k \in 1..(s - 1) : trace[k].ev = "add_static"
  /\ \A d \in TraceIdx("add_dynamic") :
       \E s \in Settles :
         /\ s < d
         /\ \A k \in TraceIdx("add_static") :
              \E j \in TraceIdx("reset") : s < j /\ j < d /\ trace[j].a = trace[k].a
  /\ \A t \in Tosses :
       /\ \E s \in Settles : s < t
       /\ \A k \in TraceIdx("reset") \cup TraceIdx("add_static") \cup TraceIdx("add_dynamic") :
            k < t
       /\ \A k \in TraceIdx("add_static") :
            \E j \in TraceIdx("reset") : j < t /\ trace[j].a = trace[k].a
  /\ pc = "done" => Cardinality(Settles) = 1 /\ Cardinality(Tosses) = 1

C1_Witness ==
  /\ pc = "done"
  /\ Cardinality(TraceIdx("add_static")) >= 2
  /\ TraceIdx("add_dynamic") # {}

\* C2: from the end of the reset loop until the toss run, every static object has
\* velocity (0, 0, 0), friction 0.5 and restitution 0.5.
C2_ResetStatics ==
  pc \in {"reset_dome", "place_dynamic", "toss"} =>
    \A k \in StaticObjects :
      /\ assets[k].velocity = <<0, 0, 0>>
      /\ assets[k].friction = 5
      /\ assets[k].restitution = 5

\* two static objects, one of which was still moving when the settle run ended
C2_Witness ==
  /\ pc = "reset_dome"
  /\ Cardinality(StaticObjects) >= 2
  /\ \E j \in TraceIdx("reset") : trace[j].b # 0

ConfigError ==
  \/ FLAGS.camera \notin CameraChoices
  \/ (IF FLAGS.objects_split = "train" THEN gso_splits.train ELSE gso_splits.test) = <<>>

\* C3: with an empty active split or an unsupported camera scheme, no simulator.run
\* and no renderer.render call is ever made.
C3_ConfigErrorsAbortEarly ==
  ConfigError => TraceIdx("run") = {} /\ TraceIdx("render") = {}

\* C4: when the training render starts, the camera's position keyframes and its
\* quaternion keyframes are at exactly the frames frame_start-1 .. frame_end+1, and
\* each frame's quaternion is the look_at(origin) of that frame's position.
C4_TrainKeyframes ==
  pc = "render_train" =>
    \A r \in Runs :
      LET kf == camera[r].keyframes
      IN /\ DOMAIN kf.position = (FLAGS.frame_start - 1)..(FLAGS.frame_end + 1)
         /\ DOMAIN kf.quaternion = (FLAGS.frame_start - 1)..(FLAGS.frame_end + 1)
         /\ \A f \in DOMAIN kf.quaternion :
              kf.quaternion[f] = [from |-> kf.position[f], to |-> <<0, 0, 0>>]

C4_Witness ==
  /\ pc = "render_train"
  /\ FLAGS.frame_end > FLAGS.frame_start
  /\ FLAGS.frame_start - 1 \in DOMAIN camera[1].keyframes.position

\* C7: every sampling call draws from the generator kb.setup returned, and two runs
\* on the same seed and flags end up with the same camera poses.
C7_SingleSeededGenerator ==
  /\ \A k \in 1..Len(draws) : draws[k][2] = "rng"
  /\ camera[1] = camera[2]

TrainCameraKeyframed == pc \in {"select_split", "num_static", "place_static", "settle",
                                "reset", "reset_dome", "place_dynamic", "toss",
                                "render_train"}

OneStep == <<1, NumFrames(FLAGS)>>

\* C9 as stated: frame f has azimuth theta0 + (f - frame_start) steps of
\* 2 pi / num_frames (as a direction), so the frame at frame_start is at theta0.
C9_AzimuthFromFrameStart ==
  TrainCameraKeyframed =>
    \A f \in DOMAIN camera[1].keyframes.position :
      SameDirection(camera[1].keyframes.position[f].az,
                    <<theta[1] * NumFrames(FLAGS) + (f - FLAGS.frame_start) * theta[2],
                      theta[2] * NumFrames(FLAGS)>>)

\* C9 amended: the leading pad frame frame_start - 1 has azimuth exactly theta0,
\* each next frame is exactly one step of 2 pi / num_frames further (so the
\* frame at frame_start is at theta0 + one step), and elevation and radius are
\* phi and radius at every frame.
C9_AzimuthFromPadFrame ==
  TrainCameraKeyframed =>
    LET kp == camera[1].keyframes.position
    IN /\ kp[FLAGS.frame_start - 1].az = theta
       /\ \A f \in DOMAIN kp :
            /\ (f + 1) \in DOMAIN kp => kp[f + 1].az = RatAdd(kp[f].az, OneStep)
            /\ kp[f].el = phi
            /\ kp[f].r = radius

C9_Witness ==
  /\ pc = "render_train"
  /\ NumFrames(FLAGS) >= 2
  /\ theta # <<0, 1>>
  /\ FLAGS.frame_end + 1 \in DOMAIN camera[1].keyframes.position

\* C10: a keyframed pose is never rewritten: as long as scene.camera is the same
\* camera object, a frame that has a position or quaternion keyframe keeps it.
C10_KeyframesImmutable ==
  [][pc # "test_camera" =>
       \A r \in Runs :
         /\ \A f \in DOMAIN camera[r].keyframes.position :
              /\ f \in DOMAIN camera'[r].keyframes.position
              /\ camera'[r].keyframes.position[f] = camera[r].keyframes.position[f]
         /\ \A f \in DOMAIN camera[r].keyframes.quaternion :
              /\ f \in DOMAIN camera'[r].keyframes.quaternion
              /\ camera'[r].keyframes.quaternion[f] = camera[r].keyframes.quaternion[f]]_vars

\* ------------------------------------------------- visibility postprocessing
\* (multicapture/run.py, after each renderer.render(): lines 239-251 and 310-322)
FrameCounts == {1, 2}      \* rendered frames
Pixels == {1, 2, 3}        \* pixels of a frame

\* scene.assets at render time: the dome, the camera, the placed objects and, in
\* the test pass, the second camera.
SceneOf(n, pass) ==
  <<Dome, CameraAsset>>
    \o [k \in 1..n |-> [kind |-> "object", asset_id |-> "a", background |-> FALSE,
                        scale |-> 4, position |-> <<k, 0, 0>>, velocity |-> Origin,
                        friction |-> 5, restitution |-> 5, is_dynamic |-> FALSE]]
    \o (IF pass = "test" THEN <<CameraAsset>> ELSE <<>>)

\* Labels a rendered pixel can carry: 0 for no asset, else the 1-based place in
\* scene.assets of the asset seen there (a camera is never seen).
Labels(as) == {0} \cup { k \in 1..Len(as) : as[k].kind # "camera" }

RECURSIVE SumSeq(_)
SumSeq(q) == IF q = <<>> THEN 0 ELSE q[1] + SumSeq(Tail(q))

RECURSIVE MaxSeq(_)
MaxSeq(q) == IF Len(q) = 1 THEN q[1]
             ELSE LET m == MaxSeq(Tail(q)) IN IF q[1] >= m THEN q[1] ELSE m

\* kb.compute_visibility(segmentation, assets): per asset and frame, the number of
\* pixels labelled with the asset's index.
compute_visibility(seg, as) ==
  [k \in 1..Len(as) |->
     [f \in 1..Len(seg) |-> Cardinality({ p \in DOMAIN seg[f] : seg[f][p] = k })]]

\* [asset for asset in scene.foreground_assets if np.max(asset.metadata["visibility"]) > 0]
RECURSIVE FilterVisibleFrom(_, _, _)
FilterVisibleFrom(fg, vis, k) ==
  IF k > Len(fg) THEN <<>>
  ELSE (IF MaxSeq(vis[fg[k]]) > 0 THEN <<fg[k]>> ELSE <<>>)
         \o FilterVisibleFrom(fg, vis, k + 1)

FilterVisible(as, vis) == FilterVisibleFrom(foreground_assets(as), vis, 1)

\* Insert x into q, sorted by descending key, behind every element whose key is at
\* least x's key.
RECURSIVE InsertDesc(_, _, _)
InsertDesc(q, x, vis) ==
  IF q = <<>> THEN <<x>>
  ELSE IF SumSeq(vis[q[1]]) >= SumSeq(vis[x])
         THEN <<q[1]>> \o InsertDesc(Tail(q), x, vis)
         ELSE <<x>> \o q

RECURSIVE SortFrom(_, _, _)
SortFrom(q, vis, k) ==
  IF k = 0 THEN <<>> ELSE InsertDesc(SortFrom(q, vis, k - 1), q[k], vis)

\* Ascending stable sort, then reversed: equal keys come out in reverse order.
RECURSIVE InsertAsc(_, _, _)
InsertAsc(q, x, vis) ==
  IF q = <<>> THEN <<x>>
  ELSE IF SumSeq(vis[q[1]]) <= SumSeq(vis[x])
         THEN <<q[1]>> \o InsertAsc(Tail(q), x, vis)
         ELSE <<x>> \o q

RECURSIVE SortAscFrom(_, _, _)
SortAscFrom(q, vis, k) ==
  IF k = 0 THEN <<>> ELSE InsertAsc(SortAscFrom(q, vis, k - 1), q[k], vis)

SortedThenReversed(q, vis) ==
  LET a == SortAscFrom(q, vis, Len(q)) IN [k \in 1..Len(a) |-> a[Len(a) + 1 - k]]

\* sorted(visible_foreground_assets, key=lambda asset: np.sum(asset.metadata["visibility"]),
\*        reverse=True): a stable sort; reverse=True keeps equal keys in input order.
SortedByVisibility(q, vis) == SortFrom(q, vis, Len(q))

Place(q, x) == CHOOSE k \in 1..Len(q) : q[k] = x
Elems(q) == { q[k] : k \in 1..Len(q) }

\* kb.adjust_segmentation_idxs(segmentation, old_assets_list, new_assets_list): a
\* pixel labelled with the place of an asset in the old list gets that asset's
\* place in the new list, and 0 when the asset is not in the new list.
adjust_segmentation_idxs(seg, old_assets, new_assets) ==
  [f \in 1..Len(seg) |->
     [p \in DOMAIN seg[f] |->
        LET l == seg[f][p]
        IN IF l \in 1..Len(old_assets) /\ old_assets[l] \in Elems(new_assets)
             THEN Place(new_assets, old_assets[l]) ELSE 0]]

\* A call that hands over scene.foreground_assets as the old list.
AdjustAgainstForeground(seg, as, visible) ==
  adjust_segmentation_idxs(seg, foreground_assets(as), visible)

\* data_stack["segmentation"] = kb.adjust_segmentation_idxs(
\*     data_stack["segmentation"], scene.assets, visible_foreground_assets)
AdjustCall(seg, as, visible) ==
  adjust_segmentation_idxs(seg, [k \in 1..Len(as) |-> k], visible)

InitPost ==
  /\ post_pc = "render"
  /\ \E n \in 0..MaxSceneObjects, pass \in {"train", "test"} :
       scene_assets = SceneOf(n, pass)
  /\ segmentation = <<>>
  /\ visibility = <<>>
  /\ visible_foreground_assets = <<>>
  /\ McIdle /\ GsoIdle

\* data_stack = renderer.render()
Render ==
  /\ post_pc = "render"
  /\ \E nf \in FrameCounts :
       segmentation' \in [1..nf -> [Pixels -> Labels(scene_assets)]]
  /\ post_pc' = "compute_visibility"
  /\ UNCHANGED <<scene_assets, visibility, visible_foreground_assets>>
  /\ UNCHANGED <<mcvars, gsovars>>

\* kb.compute_visibility(data_stack["segmentation"], scene.assets)
ComputeVisibility ==
  /\ post_pc = "compute_visibility"
  /\ visibility' = compute_visibility(segmentation, scene_assets)
  /\ post_pc' = "filter"
  /\ UNCHANGED <<scene_assets, segmentation, visible_foreground_assets>>
  /\ UNCHANGED <<mcvars, gsovars>>

\* visible_foreground_assets = [asset for asset in scene.foreground_assets if ...]
Filter ==
  /\ post_pc = "filter"
  /\ visible_foreground_assets' = FilterVisible(scene_assets, visibility)
  /\ post_pc' = "sort"
  /\ UNCHANGED <<scene_assets, segmentation, visibility>>
  /\ UNCHANGED <<mcvars, gsovars>>

\* visible_foreground_assets = sorted(visible_foreground_assets, key=..., reverse=True)
Sort ==
  /\ post_pc = "sort"
  /\ visible_foreground_assets' = SortedByVisibility(visible_foreground_assets, visibility)
  /\ post_pc' = "adjust"
  /\ UNCHANGED <<scene_assets, segmentation, visibility>>
  /\ UNCHANGED <<mcvars, gsovars>>

\* data_stack["segmentation"] = kb.adjust_segmentation_idxs(...);
\* scene.metadata["num_instances"] = len(visible_foreground_assets)
Adjust ==
  /\ post_pc = "adjust"
  /\ segmentation' = AdjustCall(segmentation, scene_assets, visible_foreground_assets)
  /\ post_pc' = "adjusted"
  /\ UNCHANGED <<scene_assets, visibility, visible_foreground_assets>>
  /\ UNCHANGED <<mcvars, gsovars>>

NextPost == Render \/ ComputeVisibility \/ Filter \/ Sort \/ Adjust

SpecPost == InitPost /\ [][NextPost]_vars

\* ---------------------------------------------- postprocessing: properties
\* Pixels over all frames that carry label k in the rendered segmentation.
PixelCount(k) ==
  Cardinality({ fp \in (DOMAIN segmentation) \X Pixels : segmentation[fp[1]][fp[2]] = k })

\* C5: the visible-object list holds exactly the foreground assets whose pixel count
\* summed over the frames is positive, each once, in descending order of that sum,
\* assets with equal sums in scene-insertion order; it may be empty.
C5_VisibleRanked ==
  post_pc = "adjust" =>
    LET v == visible_foreground_assets
    IN /\ Elems(v) = { k \in 1..Len(scene_assets) :
                         ~scene_assets[k].background /\ PixelCount(k) > 0 }
       /\ Cardinality(Elems(v)) = Len(v)
       /\ \A a \in 1..Len(v), b \in 1..Len(v) :
            a < b => \/ PixelCount(v[a]) > PixelCount(v[b])
                     \/ PixelCount(v[a]) = PixelCount(v[b]) /\ v[a] < v[b]

\* three visible objects, two of them tied, and the sort moved a later object first
C5_Witness ==
  /\ post_pc = "adjust"
  /\ Len(visible_foreground_assets) = 3
  /\ visible_foreground_assets[1] > visible_foreground_assets[2]
  /\ PixelCount(visible_foreground_assets[2]) = PixelCount(visible_foreground_assets[3])

\* the same with no visible object at all
C5_EmptyReached == post_pc = "adjust" /\ visible_foreground_assets = <<>>

\* C6: the remap step rewrites every pixel: a pixel whose label is the k-th asset
\* of the ranked list becomes k, no other pixel becomes k, every k of the list is
\* the new label of some pixel, and a pixel labelled 0 or with an asset outside the
\* list (the backdrop) becomes 0.
C6_RemapTotal ==
  [][post_pc = "adjust" =>
       LET v == visible_foreground_assets
       IN /\ DOMAIN segmentation' = DOMAIN segmentation
          /\ \A f \in DOMAIN segmentation :
               /\ DOMAIN segmentation'[f] = DOMAIN segmentation[f]
               /\ \A p \in DOMAIN segmentation[f] :
                    LET l == segmentation[f][p]
                        n == segmentation'[f][p]
                    IN /\ n \in 0..Len(v)
                       /\ (n = 0) <=> (l = 0 \/ l \notin Elems(v))
                       /\ n > 0 => v[n] = l
          /\ \A k \in 1..Len(v) :
               \E f \in DOMAIN segmentation : \E p \in Pixels : segmentation'[f][p] = k]_vars

\* remapped maps with two ranked objects in swapped order and the backdrop in view
C6_Witness ==
  /\ post_pc = "adjusted"
  /\ Len(visible_foreground_assets) >= 2
  /\ visible_foreground_assets[1] > visible_foreground_assets[2]
  /\ SumSeq(visibility[1]) > 0
  /\ \E f \in DOMAIN segmentation : \E p \in Pixels : segmentation[f][p] = 2

\* --------------------------------------------------------- gso/run.py
NumArchivePoses == 16     \* np.eye(4) for i in range(16)
LoopStop == 23            \* for frame_idx in range(1, 23)
DefaultFrameEnd == 22     \* parser.set_defaults(frame_end=22, ...)

\* Values of --frame_end around its default, the camera archives and the job
\* directories (asset indices) a run can be given.
ArgChoices ==
  { [frame_end |-> fe, job_dir |-> jd] :
      fe \in (DefaultFrameEnd - 2)..(DefaultFrameEnd + 2), jd \in {0, 1, 2} }
ArchiveChoices == {1, 2}

\* read_syncdreamer_camera(): the translation of the inverse of each of the 16
\* stored poses, times 1.3 / 1.5.  Entry k of archive a is kept symbolic.
read_syncdreamer_camera(a) ==
  [k \in 1..NumArchivePoses |->
     [src |-> "syncdreamer", of |-> <<a, k>>, az |-> 0, el |-> 0, r |-> <<13, 15>>]]

\* azimuth_elevation_to_cartesian(azimuth, elevation, radius): the point at that
\* azimuth and elevation (degrees) on the sphere of that radius.
azimuth_elevation_to_cartesian(azimuth, elevation, r) ==
  [src |-> "zero123pp", of |-> <<0, 0>>, az |-> azimuth, el |-> elevation, r |-> r]

\* get_zero123pp_camera(): six positions at radius 1.3
get_zero123pp_camera ==
  LET azimuths == <<30, 90, 150, 210, 270, 330>>
      elevations == <<30, -20, 30, -20, 30, -20>>
  IN [k \in 1..6 |-> azimuth_elevation_to_cartesian(azimuths[k], elevations[k], <<13, 10>>)]

\* all_frames[frame_idx+1] in place of all_frames[frame_idx-1]
FrameEntryShifted(frames, f) == frames[(f % Len(frames)) + 1]

\* all_frames[frame_idx-1]  (0-based in the source, 1-based here)
FrameEntry(frames, f) == frames[f]

InitGso ==
  /\ gso_pc = "setup"
  /\ args \in ArgChoices
  /\ archive \in ArchiveChoices
  /\ all_frames = <<>>
  /\ gso_camera = PerspectiveCamera
  /\ frame_idx = 0
  /\ McIdle /\ PostIdle

\* kb.setup(args), lights; set_cameras: scene.camera = kb.PerspectiveCamera(...);
\* all_frames = np.concatenate([sync_dreamer_camera, zero123pp_camera])
SetCamerasBegin ==
  /\ gso_pc = "setup"
  /\ gso_camera' = PerspectiveCamera
  /\ all_frames' = read_syncdreamer_camera(archive) \o get_zero123pp_camera
  /\ frame_idx' = 1
  /\ gso_pc' = "keyframes"
  /\ UNCHANGED <<args, archive>>
  /\ UNCHANGED <<mcvars, postvars>>

\* one iteration of: for frame_idx in range(1, 23)
SetCamerasKeyframe ==
  /\ gso_pc = "keyframes"
  /\ gso_camera' = KeyframePose(gso_camera, FrameEntry(all_frames, frame_idx), frame_idx)
  /\ frame_idx' = frame_idx + 1
  /\ gso_pc' = IF frame_idx + 1 >= LoopStop THEN "add_object" ELSE "keyframes"
  /\ UNCHANGED <<args, archive, all_frames>>
  /\ UNCHANGED <<mcvars, postvars>>

\* obj = gso.create(asset_id=asset_ids[asset_index], scale=scale); scene.add(obj);
\* data_stack = renderer.render(return_layers=("rgba",)); outputs; kb.done()
RenderGso ==
  /\ gso_pc = "add_object"
  /\ gso_pc' = "done"
  /\ UNCHANGED <<args, archive, all_frames, gso_camera, frame_idx>>
  /\ UNCHANGED <<mcvars, postvars>>

NextGso == SetCamerasBegin \/ SetCamerasKeyframe \/ RenderGso

SpecGso == InitGso /\ [][NextGso]_vars

\* The list entry the fixed-list scheme assigns to frame f.
ListEntry(f) ==
  IF f <= 16
    THEN [src |-> "syncdreamer", of |-> <<archive, f>>, az |-> 0, el |-> 0, r |-> <<13, 15>>]
    ELSE [src |-> "zero123pp", of |-> <<0, 0>>, az |-> 30 + 60 * (f - 17),
          el |-> IF f % 2 = 1 THEN 30 ELSE -20, r |-> <<13, 10>>]

KeyframedAsListed(f) ==
  /\ f \in DOMAIN gso_camera.keyframes.position
  /\ f \in DOMAIN gso_camera.keyframes.quaternion
  /\ gso_camera.keyframes.position[f] = ListEntry(f)
  /\ gso_camera.keyframes.quaternion[f] = [from |-> ListEntry(f), to |-> <<0, 0, 0>>]

\* C8 as stated: once set_cameras has run, every frame from 1 to frame_end has its
\* position and quaternion keyframe, taken from list entry f.
C8_EveryFrameToFrameEnd ==
  gso_pc \in {"add_object", "done"} => \A f \in 1..args.frame_end : KeyframedAsListed(f)

\* C8 amended: every keyframe the loop has written for a frame f is list entry f
\* with its look_at quaternion, the 22 entries are pairwise different, and once
\* set_cameras has run the keyframed frames are exactly 1..22, whatever frame_end is.
C8_Frames1To22 ==
  /\ \A f \in DOMAIN gso_camera.keyframes.position : KeyframedAsListed(f)
  /\ \A f \in 1..22, g \in 1..22 : f # g => ListEntry(f) # ListEntry(g)
  /\ gso_pc \in {"add_object", "done"} =>
       /\ DOMAIN gso_camera.keyframes.position = 1..22
       /\ DOMAIN gso_camera.keyframes.quaternion = 1..22

C8_Witness ==
  /\ gso_pc = "done"
  /\ args.frame_end > 22
  /\ 22 \in DOMAIN gso_camera.keyframes.position

====
